---- MODULE Spec2Model ----
(***************************************************************************)
(* pickasso: selection of diverse examples from a collection of records.   *)
(*                                                                         *)
(* The library (lib.ts: defaultDistance, calculateCompleteness,            *)
(* selectDiverseExamples and their helpers) and the command line tool      *)
(* (run.ts: main) are modelled as state machines over a heap of objects.   *)
(*                                                                         *)
(* JavaScript values                                                       *)
(*   a leaf value is a tuple  <<"num", n>>, <<"str", s>>, <<"null">> or    *)
(*   <<"undef">>; a nested object (or array) is <<"obj", f>> with f a      *)
(*   function from keys to values; an object is such a function f.         *)
(*   A number computed by the program is a pair <<n, d>>: the rational     *)
(*   n/d when d > 0, and NaN when d = 0.                                   *)
(*                                                                         *)
(* Modelling choices                                                       *)
(*   - numbers are exact rationals, not doubles; the numeric leaves of the *)
(*     heap are integers and its strings are not numerals;                 *)
(*   - no key of the heap contains a dot, so two leaves of one object      *)
(*     never flatten to the same path;                                     *)
(*   - an object is identified by its reference: a collection may hold the *)
(*     same reference twice, and two references may hold equal content;    *)
(*   - numExamples and sampleSize are integers, completenessWeight is a    *)
(*     rational (never NaN).                                               *)
(***************************************************************************)
EXTENDS Integers, Sequences, FiniteSets, TLC

VARIABLES
    heap,           \* object reference -> object content
    flattenCache,   \* the WeakMap flattenCache: reference -> flattened object
    \* ---- one call of an exported pure function
    fn,             \* "none", "defaultDistance" or "calculateCompleteness"
    obj1, obj2,     \* the references passed to the call
    ret,            \* the number returned, or Undefined before any call
    \* ---- one run of selectDiverseExamples
    items,          \* the collection: a sequence of references
    options,        \* SelectorOptions, absent fields are Undefined
    pc,             \* position of the run inside selectDiverseExamples
    sampledItems,   \* the working set
    selected,
    remainingItems,
    distanceCache,  \* key <<i, j>> -> number
    calls,          \* the distance function invocations: <<which, i, j>>
    sampled,        \* TRUE once getEfficientSample has run
    error,          \* the PickassoError message raised, or "none"
    result,         \* the value returned, or Undefined
    lastPick,       \* history: the candidates, their scores and the choice of
                    \* the latest pick
    \* ---- one run of the command line tool (run.ts main)
    env,            \* what the process is started with and meets
    cli             \* position of main, streams, files, exit status

selVars == <<items, options, pc, sampledItems, selected, remainingItems,
             distanceCache, calls, sampled, error, result, lastPick>>
pureVars == <<fn, obj1, obj2, ret>>
cliVars == <<env, cli>>
vars == <<env, cli, heap, flattenCache, fn, obj1, obj2, ret, items, options, pc,
          sampledItems, selected, remainingItems, distanceCache, calls,
          sampled, error, result, lastPick>>

-----------------------------------------------------------------------------
(* JavaScript values *)

Undefined == <<"undef">>
Null == <<"null">>
Num(n) == <<"num", n>>
Str(s) == <<"str", s>>
Obj(f) == <<"obj", f>>
Bool(b) == <<"bool", b>>
Fn(name) == <<"fn", name>>
Arr(seq) == <<"arr", seq>>
EmptyObject == [k \in {} |-> Undefined]

\* typeof v === "object" && v !== null
IsObject(v) == v[1] = "obj"
\* typeof v === "number"
IsNumber(v) == v[1] = "num"

-----------------------------------------------------------------------------
(* Numbers computed by the program: rationals and NaN *)

NaN == <<0, 0>>
IsNaN(r) == r[2] = 0

Abs(n) == IF n < 0 THEN -n ELSE n
Max(a, b) == IF a > b THEN a ELSE b
Min(a, b) == IF a < b THEN a ELSE b

RECURSIVE GCD(_, _)
GCD(a, b) == IF b = 0 THEN a ELSE GCD(b, a % b)

\* the rational n/d in lowest terms; a zero denominator is 0/0 here (the
\* program never divides a non-zero number by zero)
Rat(n, d) ==
    IF d = 0 THEN NaN
    ELSE LET g == GCD(Abs(n), Abs(d))
             s == IF d < 0 THEN -1 ELSE 1
         IN  <<(s * n) \div g, (s * d) \div g>>

Int2Rat(n) == <<n, 1>>
RAdd(a, b) == IF IsNaN(a) \/ IsNaN(b) THEN NaN
              ELSE Rat(a[1] * b[2] + b[1] * a[2], a[2] * b[2])
RSub(a, b) == IF IsNaN(a) \/ IsNaN(b) THEN NaN
              ELSE Rat(a[1] * b[2] - b[1] * a[2], a[2] * b[2])
RMul(a, b) == IF IsNaN(a) \/ IsNaN(b) THEN NaN
              ELSE Rat(a[1] * b[1], a[2] * b[2])
RDiv(a, b) == IF IsNaN(a) \/ IsNaN(b) THEN NaN
              ELSE Rat(a[1] * b[2], a[2] * b[1])
\* a < b and a > b of JavaScript: false as soon as one side is NaN
RLess(a, b) == ~IsNaN(a) /\ ~IsNaN(b) /\ a[1] * b[2] < b[1] * a[2]
RGreater(a, b) == RLess(b, a)
REq(a, b) == ~IsNaN(a) /\ ~IsNaN(b) /\ a[1] * b[2] = b[1] * a[2]
\* Math.min of two numbers: NaN as soon as one of them is NaN
RMin(a, b) == IF IsNaN(a) \/ IsNaN(b) THEN NaN
              ELSE IF RLess(b, a) THEN b ELSE a

-----------------------------------------------------------------------------
(* lib.ts: flattening *)

\* const fullKey = prefix ? `${prefix}.${key}` : key
fullKey(prefix, key) == IF prefix # "" THEN prefix \o "." \o key ELSE key

\* the <<path, leaf>> pairs flattenObject collects from obj
RECURSIVE flattenPairs(_, _)
flattenPairs(obj, prefix) ==
    UNION { IF IsObject(obj[key])
            THEN flattenPairs(obj[key][2], fullKey(prefix, key))
            ELSE {<<fullKey(prefix, key), obj[key]>>}
          : key \in DOMAIN obj }

\* flattenObject(obj, prefix): dot-path -> leaf value
flattenObject(obj, prefix) ==
    LET ps == flattenPairs(obj, prefix)
    IN  [p \in {x[1] : x \in ps} |-> (CHOOSE x \in ps : x[1] = p)[2]]

\* getFlattenedObject(obj): the cached flattening when there is one, else a
\* new one that is stored; returns <<cache after the call, flattened>>
getFlattenedObject(fc, hp, ref) ==
    IF ref \in DOMAIN fc
    THEN <<fc, fc[ref]>>
    ELSE LET flattened == flattenObject(hp[ref], "")
         IN  <<fc @@ (ref :> flattened), flattened>>

\* flat[key]: undefined for a key the object does not have
Get(flat, key) == IF key \in DOMAIN flat THEN flat[key] ELSE Undefined

-----------------------------------------------------------------------------
(* lib.ts: defaultDistance and calculateCompleteness *)

\* the term one key adds to `distance`
keyDistance(val1, val2) ==
    IF val1 = Undefined \/ val2 = Undefined THEN Int2Rat(1)
    ELSE IF IsNumber(val1) /\ IsNumber(val2)
         THEN LET maxVal == Max(Abs(val1[2]), Abs(val2[2]))
              IN  IF maxVal > 0 THEN Rat(Abs(val1[2] - val2[2]), maxVal)
                  ELSE Int2Rat(0)
         ELSE IF val1 = val2 THEN Int2Rat(0) ELSE Int2Rat(1)

RECURSIVE SumOver(_, _, _)
SumOver(keys, flat1, flat2) ==
    IF keys = {} THEN Int2Rat(0)
    ELSE LET key == CHOOSE k \in keys : TRUE
         IN  RAdd(keyDistance(Get(flat1, key), Get(flat2, key)),
                  SumOver(keys \ {key}, flat1, flat2))

\* defaultDistance on two flattened objects
distanceOfFlat(flat1, flat2) ==
    LET allKeys == DOMAIN flat1 \cup DOMAIN flat2
        validComparisons ==
            Cardinality({k \in allKeys : Get(flat1, k) # Undefined
                                         /\ Get(flat2, k) # Undefined})
        distance == SumOver(allKeys, flat1, flat2)
    IN  IF validComparisons > 0
        THEN RDiv(distance, Int2Rat(Cardinality(allKeys)))
        ELSE Int2Rat(1)

\* defaultDistance(obj1, obj2): <<flattenCache after the call, distance>>
defaultDistance(fc, hp, r1, r2) ==
    LET g1 == getFlattenedObject(fc, hp, r1)
        g2 == getFlattenedObject(g1[1], hp, r2)
    IN  <<g2[1], distanceOfFlat(g1[2], g2[2])>>

\* calculateCompleteness(obj): <<flattenCache after the call, completeness>>
calculateCompleteness(fc, hp, ref) ==
    LET g == getFlattenedObject(fc, hp, ref)
        flat == g[2]
        definedValues == {k \in DOMAIN flat : flat[k] # Undefined /\ flat[k] # Null}
    IN  <<g[1], Rat(Cardinality(definedValues), Cardinality(DOMAIN flat))>>

-----------------------------------------------------------------------------
(* The objects of the heap *)

Person(id, name, age, city) ==
    [id |-> Num(id), name |-> Str(name), age |-> Num(age), city |-> Str(city)]

\* tests/lib.test.ts testData (references 1..4), then objects of the shapes
\* the library's documentation and tests speak of
Pool ==
    << Person(1, "John", 25, "NY"),
       Person(2, "Jane", 30, "LA"),
       Person(3, "Bob", 25, "NY"),
       Person(4, "Alice", 35, "SF"),
       EmptyObject,
       [a |-> Num(1)],
       [a |-> Num(1), b |-> Undefined],
       [a |-> Num(-1)],
       [a |-> Null],
       [a |-> Num(0)],
       [a |-> Obj([b |-> Num(1)])],
       [a |-> Obj([b |-> Num(2)])],
       [a |-> Num(1), b |-> Str("test")],
       [n |-> Obj(EmptyObject)],
       [a |-> Num(1)] >>

Refs == 1..Len(Pool)
TestData == <<1, 2, 3, 4>>
NoCache == [r \in {} |-> EmptyObject]

-----------------------------------------------------------------------------
(* SpecPure: calls of the exported pure functions on objects of the heap *)

\* no pick has been made
NoPick == [kind |-> "none", cands |-> <<>>, scores |-> <<>>, chosen |-> 0]

\* the command line tool is not running
CliIdle == env = Undefined /\ cli = Undefined

\* no call of an exported pure function is made
PureIdle == fn = "none" /\ obj1 = 1 /\ obj2 = 1 /\ ret = Undefined

SelIdle ==
    /\ items = <<>> /\ options = Undefined /\ pc = "off"
    /\ sampledItems = <<>> /\ selected = <<>> /\ remainingItems = <<>>
    /\ distanceCache = <<>> /\ calls = <<>> /\ sampled = FALSE
    /\ error = "none" /\ result = Undefined
    /\ lastPick = NoPick

InitPure ==
    /\ CliIdle
    /\ heap = Pool
    /\ flattenCache = NoCache
    /\ fn = "none"
    /\ obj1 \in Refs /\ obj2 \in Refs
    /\ ret = Undefined
    /\ SelIdle

CallDefaultDistance ==
    /\ fn = "none"
    /\ LET r == defaultDistance(flattenCache, heap, obj1, obj2)
       IN  /\ flattenCache' = r[1]
           /\ ret' = r[2]
    /\ fn' = "defaultDistance"
    /\ UNCHANGED <<cliVars, heap, obj1, obj2, selVars>>

CallCalculateCompleteness ==
    /\ fn = "none"
    /\ LET r == calculateCompleteness(flattenCache, heap, obj1)
       IN  /\ flattenCache' = r[1]
           /\ ret' = r[2]
    /\ fn' = "calculateCompleteness"
    /\ UNCHANGED <<cliVars, heap, obj1, obj2, selVars>>

NextPure == CallDefaultDistance \/ CallCalculateCompleteness

SpecPure == InitPure /\ [][NextPure]_vars

-----------------------------------------------------------------------------
(* SpecMut: calls of the exported pure functions between which the caller
   assigns to properties of the records; flattenCache is a module-level
   WeakMap keyed by the object, so it outlives the calls *)

\* the records the caller holds and writes to: {a: 1}, {a: null}, {a: 1}
MutRefs == {6, 9, 15}
\* the contents a write leaves in a record: {a: 1}, {a: null}, {a: 0}
MutContents == {Pool[6], Pool[9], Pool[10]}

InitMut ==
    /\ CliIdle
    /\ heap = Pool
    /\ flattenCache = NoCache
    /\ fn = "none"
    /\ obj1 \in MutRefs /\ obj2 \in MutRefs
    /\ ret = Undefined
    /\ SelIdle

\* x.a = v, between two calls
Mutate ==
    /\ fn = "none"
    /\ \E r \in MutRefs, c \in MutContents :
           /\ heap[r] # c
           /\ heap' = [heap EXCEPT ![r] = c]
    /\ UNCHANGED <<cliVars, flattenCache, pureVars, selVars>>

\* the call has returned; the caller chooses the arguments of its next call
Prepare ==
    /\ fn # "none"
    /\ fn' = "none"
    /\ ret' = Undefined
    /\ obj1' \in MutRefs /\ obj2' \in MutRefs
    /\ UNCHANGED <<cliVars, heap, flattenCache, selVars>>

NextMut ==
    \/ CallDefaultDistance
    \/ CallCalculateCompleteness
    \/ Mutate
    \/ Prepare

SpecMut == InitMut /\ [][NextMut]_vars

-----------------------------------------------------------------------------
(* lib.ts: validateOptions and the defaults of selectDiverseExamples *)

\* an optional number of SelectorOptions is Undefined or Num(n), n an integer
\* (sampleSize) or a rational (completenessWeight)

\* validateOptions without the completenessWeight check
validateOptions_NoWeightCheck(opts) ==
    IF opts.sampleSize # Undefined /\ opts.sampleSize[2] <= 0
    THEN "sampleSize must be positive"
    ELSE "none"

\* validateOptions(options): the message it throws, or "none"
validateOptions(opts) ==
    IF /\ opts.completenessWeight # Undefined
       /\ \/ RLess(opts.completenessWeight[2], Int2Rat(0))
          \/ RGreater(opts.completenessWeight[2], Int2Rat(1))
    THEN "completenessWeight must be between 0 and 1"
    ELSE IF opts.sampleSize # Undefined /\ opts.sampleSize[2] <= 0
         THEN "sampleSize must be positive"
         ELSE "none"

DefaultSampleCap == 1000
ReservoirThreshold == 10000

\* sampleSize = Math.min(1000, items.length)
sampleSizeOf(opts, its) ==
    IF opts.sampleSize = Undefined THEN Min(DefaultSampleCap, Len(its))
    ELSE opts.sampleSize[2]
\* prioritizeComplete = false
prioritizeCompleteOf(opts) ==
    IF opts.prioritizeComplete = Undefined THEN FALSE
    ELSE opts.prioritizeComplete[2]
\* completenessWeight = 0.3
completenessWeightOf(opts) ==
    IF opts.completenessWeight = Undefined THEN Rat(3, 10)
    ELSE opts.completenessWeight[2]
\* the destructuring without the caller's distanceFunction
distanceFunctionOf_AlwaysDefault(opts) == "defaultDistance"

\* distanceFunction = defaultDistance
distanceFunctionOf(opts) ==
    IF opts.distanceFunction = Undefined THEN "defaultDistance"
    ELSE opts.distanceFunction[2]

-----------------------------------------------------------------------------
(* tests/lib.test.ts: the caller's distance function *)

AgeScale == 35

\* ToNumber of a property value (the strings of the heap are not numerals)
ToNumber(v) ==
    IF IsNumber(v) THEN Int2Rat(v[2])
    ELSE IF v = Null THEN Int2Rat(0)
    ELSE NaN

\* (a, b) => Math.abs(a.age - b.age) / 35
customDistance(a, b) ==
    LET d == RSub(ToNumber(Get(a, "age")), ToNumber(Get(b, "age")))
    IN  IF IsNaN(d) THEN NaN ELSE Rat(Abs(d[1]), d[2] * AgeScale)

-----------------------------------------------------------------------------
(* lib.ts: sampling *)

\* the sequences of k pairwise different positions of 1..n
RECURSIVE InjSeqs(_, _)
InjSeqs(n, k) ==
    IF k = 0 THEN {<<>>}
    ELSE { Append(s, p) : s \in InjSeqs(n, k - 1), p \in 1..n } \cap
         { s \in [1..k -> 1..n] : \A i, j \in 1..k : s[i] = s[j] => i = j }

\* getRandomSample: [...items].sort(() => 0.5 - Math.random()) is some
\* permutation of items, of which the first sampleSize are kept
getRandomSample(its, sampleSize) ==
    { [i \in 1..Min(sampleSize, Len(its)) |-> its[s[i]]]
      : s \in InjSeqs(Len(its), Min(sampleSize, Len(its))) }

\* reservoirSample: the reservoirs the loop from (0-based) position i on can
\* end with
RECURSIVE reservoirFrom(_, _, _, _)
reservoirFrom(its, sampleSize, reservoir, i) ==
    IF i >= Len(its) THEN {reservoir}
    ELSE UNION { reservoirFrom(its, sampleSize,
                     IF j < sampleSize
                     THEN [reservoir EXCEPT ![j + 1] = its[i + 1]]
                     ELSE reservoir,
                     i + 1)
                 : j \in 0..i }

reservoirSample(its, sampleSize) ==
    reservoirFrom(its, sampleSize, SubSeq(its, 1, Min(sampleSize, Len(its))),
                  sampleSize)

\* getEfficientSample: the samples the call can return
getEfficientSample(its, sampleSize) ==
    IF Len(its) > ReservoirThreshold
    THEN reservoirSample(its, sampleSize)
    ELSE getRandomSample(its, sampleSize)

-----------------------------------------------------------------------------
(* lib.ts: the picks of selectDiverseExamples *)

\* Array.prototype.indexOf, 0-based, -1 when absent
IndexOf(seq, x) ==
    IF \E i \in 1..Len(seq) : seq[i] = x
    THEN (CHOOSE i \in 1..Len(seq) :
              seq[i] = x /\ \A j \in 1..(i - 1) : seq[j] # x) - 1
    ELSE -1

\* a splice that removes the last element whatever the index is
Splice_DropLast(seq, i) == SubSeq(seq, 1, Len(seq) - 1)

\* seq.splice(i, 1) with i 0-based; splice(-1, 1) removes the last element
Splice(seq, i) ==
    LET at == IF i < 0 THEN Len(seq) + i + 1 ELSE i + 1
    IN  [k \in 1..(Len(seq) - 1) |-> IF k < at THEN seq[k] ELSE seq[k + 1]]

\* the distance function the run uses, applied to two references:
\* <<flattenCache after the call, distance>>
applyDistance(which, fc, hp, a, b) ==
    IF which = "defaultDistance" THEN defaultDistance(fc, hp, a, b)
    ELSE <<fc, customDistance(hp[a], hp[b])>>

\* getCachedDistance(a, b) in the state st = [dc, calls, fc] (distanceCache,
\* invocation log, flattenCache): [st |-> state after, val |-> distance]
getCachedDistance(st, its, hp, which, a, b) ==
    LET key == <<IndexOf(its, a), IndexOf(its, b)>>
    IN  IF key \in DOMAIN st.dc
        THEN [st |-> st, val |-> st.dc[key]]
        ELSE LET r == applyDistance(which, st.fc, hp, a, b)
             IN  [st |-> [dc |-> st.dc @@ (key :> r[2]),
                          calls |-> Append(st.calls, <<which, key[1], key[2]>>),
                          fc |-> r[1]],
                  val |-> r[2]]

\* Math.min(...selected.map((s) => getCachedDistance(item, s))) from the
\* k-th selected record on, acc the minimum so far (selected is not empty)
RECURSIVE minDistanceFrom(_, _, _, _, _, _, _, _)
minDistanceFrom(st, its, hp, which, item, sel, k, acc) ==
    IF k > Len(sel) THEN [st |-> st, val |-> acc]
    ELSE LET g == getCachedDistance(st, its, hp, which, item, sel[k])
         IN  minDistanceFrom(g.st, its, hp, which, item, sel, k + 1,
                             IF k = 1 THEN g.val ELSE RMin(acc, g.val))

\* score = (1 - completenessWeight) * minDistance +
\*         completenessWeight * completeness
blend(w, minDistance, completeness) ==
    RAdd(RMul(RSub(Int2Rat(1), w), minDistance), RMul(w, completeness))

\* lines 236-242, m the candidate's minDistance and the state after computing
\* it: [st |-> state after, val |-> score]
scoreWith(m, hp, opts, item) ==
    IF prioritizeCompleteOf(opts)
    THEN LET c == calculateCompleteness(m.st.fc, hp, item)
         IN  [st |-> [m.st EXCEPT !.fc = c[1]],
              val |-> blend(completenessWeightOf(opts), m.val, c[2])]
    ELSE m

\* the score of one candidate: [st |-> state after, val |-> score]
scoreOf(st, its, hp, opts, item, sel) ==
    scoreWith(minDistanceFrom(st, its, hp, distanceFunctionOf(opts), item, sel,
                              1, NaN),
              hp, opts, item)

\* lines 244-248: the best candidate so far after candidate i (1-based) has
\* scored s: <<maxScore, bestIndex>>, bestIndex 0-based
better(s, i, maxScore, bestIndex) ==
    IF RGreater(s, maxScore) THEN <<s, i - 1>> ELSE <<maxScore, bestIndex>>

\* the for loop over remainingItems from (1-based) index i on:
\* [st, bestIndex] with bestIndex 0-based, -1 when bestItem stays null
RECURSIVE scanFrom(_, _, _, _, _, _, _, _, _)
RECURSIVE scanStep(_, _, _, _, _, _, _, _, _)
scanStep(s, its, hp, opts, rem, sel, i, maxScore, bestIndex) ==
    scanFrom(s.st, its, hp, opts, rem, sel, i + 1,
             better(s.val, i, maxScore, bestIndex)[1],
             better(s.val, i, maxScore, bestIndex)[2])

scanFrom(st, its, hp, opts, rem, sel, i, maxScore, bestIndex) ==
    IF i > Len(rem) THEN [st |-> st, bestIndex |-> bestIndex]
    ELSE scanStep(scoreOf(st, its, hp, opts, rem[i], sel),
                  its, hp, opts, rem, sel, i, maxScore, bestIndex)

\* the scores the for loop computes, candidate by candidate from (1-based)
\* index i on, acc the scores before i
RECURSIVE scoresFrom(_, _, _, _, _, _, _, _)
RECURSIVE scoresStep(_, _, _, _, _, _, _, _)
scoresStep(s, its, hp, opts, rem, sel, i, acc) ==
    scoresFrom(s.st, its, hp, opts, rem, sel, i + 1, Append(acc, s.val))

scoresFrom(st, its, hp, opts, rem, sel, i, acc) ==
    IF i > Len(rem) THEN acc
    ELSE scoresStep(scoreOf(st, its, hp, opts, rem[i], sel),
                    its, hp, opts, rem, sel, i, acc)

\* the completeness of every element of seq, as the sort's comparator
\* computes it: [fc |-> flattenCache after, c |-> index -> completeness]
RECURSIVE completenessAll(_, _, _, _, _)
completenessAll(fc, hp, seq, i, acc) ==
    IF i > Len(seq) THEN [fc |-> fc, c |-> acc]
    ELSE LET r == calculateCompleteness(fc, hp, seq[i])
         IN  completenessAll(r[1], hp, seq, i + 1, Append(acc, r[2]))

\* stable sort of the indices idx (in array order) by decreasing c, equal and
\* NaN differences keeping the array order
RECURSIVE stableOrder(_, _)
stableOrder(idx, c) ==
    IF idx = <<>> THEN <<>>
    ELSE LET first == CHOOSE k \in 1..Len(idx) :
                          /\ \A j \in 1..Len(idx) : ~RGreater(c[idx[j]], c[idx[k]])
                          /\ \A j \in 1..(k - 1) : RGreater(c[idx[k]], c[idx[j]])
                                                   \/ RLess(c[idx[k]], c[idx[j]])
         IN  <<idx[first]>> \o stableOrder(Splice(idx, first - 1), c)

\* (a, b) => calculateCompleteness(b) - calculateCompleteness(a) is a
\* consistent comparator unless a NaN difference (taken as 0) ties records
\* whose completeness differs
consistentComparator(c) ==
    \/ \A i \in 1..Len(c) : ~IsNaN(c[i])
    \/ \A i, j \in 1..Len(c) : (~IsNaN(c[i]) /\ ~IsNaN(c[j])) => REq(c[i], c[j])

\* remainingItems.sort(...): the orders the sort can leave the array in; with
\* an inconsistent comparator the order is implementation-defined
sortOutcomes(seq, c) ==
    IF consistentComparator(c)
    THEN { [k \in 1..Len(seq) |->
               seq[stableOrder([i \in 1..Len(seq) |-> i], c)[k]]] }
    ELSE { [k \in 1..Len(seq) |-> seq[s[k]]] : s \in InjSeqs(Len(seq), Len(seq)) }

-----------------------------------------------------------------------------
(* Spec: one run of selectDiverseExamples(items, options) *)

MaxItems == 3

\* the objects the collections of Spec are built from: the empty record, a
\* complete record, a record with an undefined leaf
SmallRefs == {5, 6, 7}

RECURSIVE SeqsUpTo(_, _)
SeqsUpTo(S, n) ==
    IF n = 0 THEN {<<>>}
    ELSE LET shorter == SeqsUpTo(S, n - 1)
         IN  shorter \cup { Append(s, x) : s \in {t \in shorter : Len(t) = n - 1},
                                           x \in S }

\* the records the caller's distance function is written for: they have an age
PersonRefs == {1, 2, 3}

\* the collections a run is started with: the caller's distance function is
\* given collections of the records it is written for
ItemSeqs(opts) ==
    {TestData} \cup
    SeqsUpTo(IF opts.distanceFunction = Undefined THEN SmallRefs ELSE PersonRefs,
             MaxItems)

OptionSet ==
    [ numExamples : -1..(MaxItems + 1),
      sampleSize : {Undefined, Num(0), Num(1), Num(2)},
      prioritizeComplete : {Undefined, Bool(TRUE), Bool(FALSE)},
      completenessWeight : {Undefined, Num(Rat(-1, 2)), Num(Rat(0, 1)),
                            Num(Rat(1, 1)), Num(Rat(3, 2))},
      distanceFunction : {Undefined, Fn("customDistance")} ]

Init ==
    /\ CliIdle
    /\ heap = Pool
    /\ flattenCache = NoCache
    /\ PureIdle
    /\ options \in OptionSet
    /\ items \in ItemSeqs(options)
    /\ pc = "call"
    /\ sampledItems = <<>> /\ selected = <<>> /\ remainingItems = <<>>
    /\ distanceCache = <<>> /\ calls = <<>> /\ sampled = FALSE
    /\ error = "none" /\ result = Undefined
    /\ lastPick = NoPick

\* line 175: validateOptions(options)
Validate ==
    /\ pc = "call"
    /\ LET msg == validateOptions(options)
       IN  IF msg = "none"
           THEN pc' = "validated" /\ error' = error
           ELSE pc' = "raised" /\ error' = msg
    /\ UNCHANGED <<cliVars, heap, flattenCache, pureVars, items, options, sampledItems,
                   selected, remainingItems, distanceCache, calls, sampled,
                   result, lastPick>>

\* the edge cases with the count check ahead of the empty/zero check
edgeCase_CountFirst(its, opts) ==
    IF opts.numExamples > Len(its) THEN "raise"
    ELSE IF Len(its) = 0 \/ opts.numExamples = 0 THEN "empty"
    ELSE "select"

\* lines 185-192: what the edge cases decide: "empty" (return []), "raise"
\* or "select"
edgeCase(its, opts) ==
    IF Len(its) = 0 \/ opts.numExamples = 0 THEN "empty"
    ELSE IF opts.numExamples > Len(its) THEN "raise"
    ELSE "select"

\* lines 185-192: the edge cases
EdgeCases ==
    /\ pc = "validated"
    /\ LET e == edgeCase(items, options)
       IN  /\ pc' = CASE e = "empty" -> "returned"
                      [] e = "raise" -> "raised"
                      [] OTHER -> "sample"
           /\ result' = IF e = "empty" THEN Arr(<<>>) ELSE result
           /\ error' = IF e = "raise"
                       THEN "Cannot select more examples than available items"
                       ELSE error
    /\ UNCHANGED <<cliVars, heap, flattenCache, pureVars, items, options,
                   sampledItems, selected, remainingItems, distanceCache,
                   calls, sampled, lastPick>>

\* lines 194-199: the working set and the run's fresh structures
Sample ==
    /\ pc = "sample"
    /\ LET sampleSize == sampleSizeOf(options, items)
       IN  IF Len(items) > sampleSize
           THEN /\ sampledItems' \in getEfficientSample(items, sampleSize)
                /\ sampled' = TRUE
           ELSE /\ sampledItems' = items
                /\ sampled' = sampled
    /\ remainingItems' = sampledItems'
    /\ selected' = <<>>
    /\ distanceCache' = <<>>
    /\ pc' = "first"
    /\ UNCHANGED <<cliVars, heap, flattenCache, pureVars, items, options, calls, error,
                   result, lastPick>>

\* lines 210-222: the first pick
FirstPick ==
    /\ pc = "first"
    /\ IF prioritizeCompleteOf(options)
       THEN LET ca == IF Len(remainingItems) >= 2
                      THEN completenessAll(flattenCache, heap, remainingItems,
                                           1, <<>>)
                      ELSE [fc |-> flattenCache, c |-> <<Int2Rat(0)>>]
            IN  /\ flattenCache' = ca.fc
                /\ \E sorted \in sortOutcomes(remainingItems, ca.c) :
                       /\ selected' = Append(selected, sorted[1])
                       /\ remainingItems' =
                              Splice(sorted, IndexOf(sorted, sorted[1]))
                       /\ lastPick' =
                              [kind |-> "complete",
                               cands |-> remainingItems,
                               scores |-> completenessAll(flattenCache, heap,
                                              remainingItems, 1, <<>>).c,
                               chosen |-> IndexOf(remainingItems, sorted[1]) + 1]
       ELSE /\ \E k \in 1..Len(remainingItems) :
                   LET randomFirst == remainingItems[k]
                   IN  /\ selected' = Append(selected, randomFirst)
                       /\ remainingItems' =
                              Splice(remainingItems,
                                     IndexOf(remainingItems, randomFirst))
                       /\ lastPick' = [kind |-> "random",
                                       cands |-> remainingItems,
                                       scores |-> <<>>, chosen |-> k]
            /\ flattenCache' = flattenCache
    /\ pc' = "loop"
    /\ UNCHANGED <<cliVars, heap, pureVars, items, options, sampledItems, distanceCache,
                   calls, sampled, error, result>>

\* lines 225-255: one iteration of the while loop
IterativePick ==
    /\ pc = "loop"
    /\ Len(selected) < options.numExamples /\ Len(remainingItems) > 0
    /\ \E r \in {scanFrom([dc |-> distanceCache, calls |-> calls,
                           fc |-> flattenCache],
                          items, heap, options, remainingItems, selected, 1,
                          Int2Rat(-1), -1)} :
           /\ distanceCache' = r.st.dc
           /\ calls' = r.st.calls
           /\ flattenCache' = r.st.fc
           /\ lastPick' =
                  [kind |-> IF r.bestIndex = -1 THEN "break" ELSE "iterative",
                   cands |-> remainingItems,
                   scores |-> scoresFrom([dc |-> distanceCache, calls |-> calls,
                                          fc |-> flattenCache],
                                         items, heap, options, remainingItems,
                                         selected, 1, <<>>),
                   chosen |-> r.bestIndex + 1]
           /\ IF r.bestIndex = -1
              THEN \* if (bestItem === null) break; return selected
                   /\ pc' = "returned"
                   /\ result' = Arr(selected)
                   /\ UNCHANGED <<selected, remainingItems>>
              ELSE /\ selected' = Append(selected, remainingItems[r.bestIndex + 1])
                   /\ remainingItems' = Splice(remainingItems, r.bestIndex)
                   /\ UNCHANGED <<pc, result>>
    /\ UNCHANGED <<cliVars, heap, pureVars, items, options, sampledItems, sampled, error>>

\* lines 225 and 257: the loop condition fails, return selected
Return ==
    /\ pc = "loop"
    /\ ~(Len(selected) < options.numExamples /\ Len(remainingItems) > 0)
    /\ pc' = "returned"
    /\ result' = Arr(selected)
    /\ UNCHANGED <<cliVars, heap, flattenCache, pureVars, items, options, sampledItems,
                   selected, remainingItems, distanceCache, calls, sampled,
                   error, lastPick>>

Next == Validate \/ EdgeCases \/ Sample \/ FirstPick \/ IterativePick \/ Return

Spec == Init /\ [][Next]_vars

-----------------------------------------------------------------------------
(* SpecCli: run.ts, one run of main() *)

\* process.stdout.isTTY is true on a terminal and undefined otherwise
\* isOutputPiped()
isOutputPiped(e) == e.stdoutIsTTY = Undefined \/ e.stdoutIsTTY = Bool(FALSE)

\* !isOutputPiped() && console.log(msg)
logged(e, out, msg) == IF isOutputPiped(e) THEN out ELSE Append(out, Str(msg))

\* JSON.stringify(selected, null, 2)
stringify(value) == <<"json", value>>

\* the file the run may write, and the array the selector returns to main
OutPath == "out.json"
SelectedByCli == Arr(<<1, 4>>)

EnvSet ==
    [ clipboard : {Undefined, Bool(TRUE)},      \* options.clipboard
      inputFile : {Undefined, Str("data.json")},\* program.args[0]
      stdinIsTTY : {Undefined, Bool(TRUE)},     \* process.stdin.isTTY
      stdoutIsTTY : {Undefined, Bool(TRUE), Bool(FALSE)},
      outFile : {Undefined, Str(OutPath)},      \* options.outFile
      readFails : BOOLEAN,                      \* the read of the source throws
      data : {"array", "notArray", "invalidJSON", "invalidPath"},
      selectorThrows : BOOLEAN,                 \* selectDiverseExamples throws
      writeFails : BOOLEAN ]                    \* fs.writeFile rejects

InitCli ==
    /\ env \in EnvSet
    /\ cli = [pc |-> "start", stdout |-> <<>>, stderr |-> <<>>,
              files |-> <<>>, exitCode |-> Undefined]
    /\ heap = Pool /\ flattenCache = NoCache
    /\ PureIdle
    /\ SelIdle

\* catch (error): console.error("Error:", ...); process.exit(1)
failed(c, out, msg) ==
    [c EXCEPT !.pc = "exit", !.stdout = out,
              !.stderr = Append(c.stderr, Str(msg)), !.exitCode = Num(1)]

\* lines 114-130: determine the input source and get its content
ReadInput ==
    /\ cli.pc = "start"
    /\ cli' =
         IF env.clipboard = Bool(TRUE)
         THEN LET out == logged(env, cli.stdout, "Reading from clipboard...")
              IN  IF env.readFails
                  THEN failed(cli, out, "Failed to read clipboard")
                  ELSE [cli EXCEPT !.pc = "read", !.stdout = out]
         ELSE IF env.inputFile # Undefined
         THEN LET out == logged(env, cli.stdout, "Reading from file")
              IN  IF env.readFails
                  THEN failed(cli, out, "readFile failed")
                  ELSE [cli EXCEPT !.pc = "read", !.stdout = out]
         ELSE IF env.stdinIsTTY # Bool(TRUE)
         THEN LET out == logged(env, cli.stdout, "Reading from stdin...")
              IN  IF env.readFails
                  THEN failed(cli, out, "stdin failed")
                  ELSE [cli EXCEPT !.pc = "read", !.stdout = out]
         ELSE failed(cli, cli.stdout, "No input provided")
    /\ UNCHANGED <<env, heap, flattenCache, pureVars, selVars>>

\* lines 132-150: parse the content and get the array
ParseData ==
    /\ cli.pc = "read"
    /\ cli' = IF env.data = "array"
              THEN [cli EXCEPT !.pc = "parsed"]
              ELSE failed(cli, cli.stdout, "Failed to parse data")
    /\ UNCHANGED <<env, heap, flattenCache, pureVars, selVars>>

\* lines 152-161: configure the options and select
Select ==
    /\ cli.pc = "parsed"
    /\ cli' = IF env.selectorThrows
              THEN failed(cli, cli.stdout, "PickassoError")
              ELSE [cli EXCEPT !.pc = "selected"]
    /\ UNCHANGED <<env, heap, flattenCache, pureVars, selVars>>

\* lines 163-168: output results
Output ==
    /\ cli.pc = "selected"
    /\ LET output == stringify(SelectedByCli)
       IN  cli' =
             IF env.outFile # Undefined
             THEN IF env.writeFails
                  THEN failed(cli, cli.stdout, "writeFile failed")
                  ELSE [cli EXCEPT
                          !.pc = "done",
                          !.files = (env.outFile[2] :> output),
                          !.stdout = logged(env, cli.stdout, "Results written")]
             ELSE [cli EXCEPT !.pc = "done"]
    /\ UNCHANGED <<env, heap, flattenCache, pureVars, selVars>>

NextCli == ReadInput \/ ParseData \/ Select \/ Output

SpecCli == InitCli /\ [][NextCli]_vars

-----------------------------------------------------------------------------
(* Properties *)

\* the number of positions of seq that hold x
Count(seq, x) == Cardinality({i \in 1..Len(seq) : seq[i] = x})
\* every element of sub can be given a position of seq of its own
FromDistinctPositions(sub, seq) ==
    \A i \in 1..Len(sub) : Count(sub, sub[i]) <= Count(seq, sub[i])
\* a number of the closed interval [0, 1]
InUnitInterval(r) == ~IsNaN(r) /\ r[1] >= 0 /\ r[1] <= r[2]

ValidCount ==
    Len(items) > 0 /\ 0 < options.numExamples /\ options.numExamples <= Len(items)
CustomSupplied == options.distanceFunction # Undefined
WeightOutside ==
    /\ options.completenessWeight # Undefined
    /\ \/ RLess(options.completenessWeight[2], Int2Rat(0))
       \/ RGreater(options.completenessWeight[2], Int2Rat(1))
SampleSizeNotPositive ==
    options.sampleSize # Undefined /\ options.sampleSize[2] <= 0
NoSelectionWork == ~sampled /\ flattenCache = NoCache /\ calls = <<>>

\* C1: for a non-empty collection, 0 < numExamples <= |collection| and
\* options that pass validation, the run returns exactly numExamples records,
\* each from a position of its own of the collection.
C1_ExactCount ==
    (pc = "returned" /\ ValidCount) =>
        /\ Len(result[2]) = options.numExamples
        /\ FromDistinctPositions(result[2], items)

C3_ErrorsBeforeWork ==
    /\ (WeightOutside \/ SampleSizeNotPositive) =>
           /\ pc \in {"call", "raised"}
           /\ NoSelectionWork
    /\ (Len(items) > 0 /\ options.numExamples > Len(items)) =>
           /\ pc \in {"call", "validated", "raised"}
           /\ NoSelectionWork
    /\ pc = "raised" => error # "none" /\ result = Undefined

C3_Witness ==
    /\ pc = "raised"
    /\ error = "Cannot select more examples than available items"
    /\ options.completenessWeight = Num(Rat(1, 1))
    /\ NoSelectionWork

\* C4: defaultDistance(a, b) lies in [0,1] for every pair of records.
C4_DistanceInUnitInterval ==
    fn = "defaultDistance" => InUnitInterval(ret)

\* C5: defaultDistance(x, x) = 0 for every record x.
C5_SelfDistanceZero ==
    (fn = "defaultDistance" /\ obj1 = obj2) => REq(ret, Int2Rat(0))

\* C6: calculateCompleteness(record) lies in [0,1], and is exactly 0 for a
\* record whose flattening has no leaf path.
C6_CompletenessInUnitInterval ==
    fn = "calculateCompleteness" =>
        /\ InUnitInterval(ret)
        /\ flattenObject(heap[obj1], "") = EmptyObject => REq(ret, Int2Rat(0))

\* C7: on the test's four records with numExamples = 2 and the custom
\* distance |a.age - b.age| / 35, the two records returned have ages that
\* differ by more than 5, whatever the random first pick was.
C7_AgesDifferByMoreThan5 ==
    (/\ pc = "returned"
     /\ items = TestData
     /\ options = [numExamples |-> 2, sampleSize |-> Undefined,
                   prioritizeComplete |-> Undefined,
                   completenessWeight |-> Undefined,
                   distanceFunction |-> Fn("customDistance")]) =>
        /\ Len(result[2]) = 2
        /\ Abs(heap[result[2][1]].age[2] - heap[result[2][2]].age[2]) > 5

\* C8 as stated: with a custom distanceFunction and an otherwise valid call,
\* the run invokes the custom function at least once and never the default.
C8_CustomInvoked ==
    (pc = "returned" /\ CustomSupplied /\ ValidCount) =>
        /\ \E i \in 1..Len(calls) : calls[i][1] = "customDistance"
        /\ \A i \in 1..Len(calls) : calls[i][1] # "defaultDistance"

\* C8 amended: with a custom distanceFunction the run never invokes the
\* default metric; and a valid call with numExamples >= 2 whose working set
\* holds at least 2 records invokes the custom function at least once.
C8_CustomInvokedWhenTwo ==
    CustomSupplied =>
        /\ \A i \in 1..Len(calls) : calls[i][1] = "customDistance"
        /\ (/\ pc = "returned" /\ ValidCount
            /\ options.numExamples >= 2 /\ Len(sampledItems) >= 2) =>
               \E i \in 1..Len(calls) : calls[i][1] = "customDistance"

C8_Witness ==
    /\ pc = "returned" /\ CustomSupplied /\ ValidCount
    /\ options.numExamples >= 2 /\ Len(sampledItems) >= 2
    /\ Len(calls) >= 2

\* C9: when the run of the tool succeeds, the serialized selection has been
\* written to standard output if no --out-file was given, and to that file
\* if one was.
C9_OutputWritten ==
    cli.pc = "done" =>
        IF env.outFile = Undefined
        THEN \E i \in 1..Len(cli.stdout) :
                 cli.stdout[i] = stringify(SelectedByCli)
        ELSE /\ env.outFile[2] \in DOMAIN cli.files
             /\ cli.files[env.outFile[2]] = stringify(SelectedByCli)

\* C10: the selector returns fewer than numExamples records only when the
\* working set itself holds fewer than numExamples records.
C10_FewerOnlyWhenWorkingSetSmall ==
    (pc = "returned" /\ Len(result[2]) < options.numExamples) =>
        Len(sampledItems) < options.numExamples

\* the records of selected and of remainingItems are, position for position
\* of the working set, the working set: every reference is held as often by
\* the two together as by sampledItems
IsPartition(sel, rem, working) ==
    \A r \in Refs : Count(sel, r) + Count(rem, r) = Count(working, r)

\* C11: at every step selected and remainingItems split the working set (no
\* position in both, none lost, none selected twice), |selected| never
\* decreases, and a step that changes selected moves exactly one record from
\* remainingItems to it.
C11_PartitionKept ==
    [][/\ IsPartition(selected', remainingItems', sampledItems')
       /\ Len(selected') >= Len(selected)
       /\ selected' # selected =>
              /\ Len(selected') = Len(selected) + 1
              /\ SubSeq(selected', 1, Len(selected)) = selected
              /\ Len(remainingItems') = Len(remainingItems) - 1
              /\ sampledItems' = sampledItems]_vars

C11_Witness ==
    /\ pc = "loop" /\ Len(selected) = 2 /\ Len(remainingItems) >= 1
    /\ \E i \in 1..Len(remainingItems) : remainingItems[i] = selected[1]

\* C12: during one run the distance function is evaluated at most once for
\* each unordered pair {i, j} of positions of the collection: no two
\* invocations are for (i, j) and (i, j), or for (i, j) and (j, i).
C12_EachPairOnce ==
    \A m, n \in 1..Len(calls) :
        m < n => {calls[m][2], calls[m][3]} # {calls[n][2], calls[n][3]}

\* a >= b of JavaScript
RGeq(a, b) == RGreater(a, b) \/ REq(a, b)

\* C13: in the completeness-based first pick and in every iterative pick the
\* record chosen has the greatest score among the candidates, and among the
\* candidates with that score it is the earliest of the working set's order.
C13_GreatestScoreFirstWins ==
    lastPick.kind \in {"complete", "iterative"} =>
        \A j \in 1..Len(lastPick.cands) \ {lastPick.chosen} :
            /\ RGeq(lastPick.scores[lastPick.chosen], lastPick.scores[j])
            /\ /\ REq(lastPick.scores[lastPick.chosen], lastPick.scores[j])
               /\ Count(sampledItems, lastPick.cands[lastPick.chosen]) = 1
               /\ Count(sampledItems, lastPick.cands[j]) = 1
               => IndexOf(sampledItems, lastPick.cands[lastPick.chosen])
                       <= IndexOf(sampledItems, lastPick.cands[j])

\* C14: the flattened mapping a call of defaultDistance or
\* calculateCompleteness uses for a record is the flattening of the record's
\* content at the time of the call, so the call returns what it returns for
\* a new record of equal content, whatever calls and writes came before.
C14_FlatteningIsCurrent ==
    /\ fn = "calculateCompleteness" =>
           /\ flattenCache[obj1] = flattenObject(heap[obj1], "")
           /\ ret = calculateCompleteness(NoCache, heap, obj1)[2]
    /\ fn = "defaultDistance" =>
           /\ flattenCache[obj1] = flattenObject(heap[obj1], "")
           /\ flattenCache[obj2] = flattenObject(heap[obj2], "")
           /\ ret = defaultDistance(NoCache, heap, obj1, obj2)[2]

\* C15: for every collection and every integer numExamples that does not
\* raise, negative ones included, at most max(numExamples, 0) records are
\* returned, and the first pick is made only when at least one record was
\* requested.
C15_AtMostRequested ==
    /\ pc = "returned" => Len(result[2]) <= Max(options.numExamples, 0)
    /\ lastPick.kind # "none" => options.numExamples >= 1

====
